---- MODULE Spec2Model ----
(***************************************************************************)
(* The dashboard controller of static/js/dashboard.js as a state machine.  *)
(*                                                                         *)
(* Three specifications share the variables:                               *)
(*   SpecLoad     the DOMContentLoaded handler, the two chart renderers    *)
(*                and the doughnut tooltip callback;                       *)
(*   SpecRefresh  the refresh interval, refreshDashboardData,              *)
(*                updateKPICards and the KPI card click handlers;          *)
(*   SpecSearch   the debounce utility and the search input handler.       *)
(*                                                                         *)
(* Strings the code inspects character by character (search text, counter  *)
(* text) are sequences of one-character strings.  A JavaScript object is a *)
(* function whose DOMAIN is the set of keys it has; reading a key outside  *)
(* the DOMAIN is JavaScript's undefined.                                   *)
(***************************************************************************)
EXTENDS Integers, Sequences, FiniteSets

VARIABLES
    \* ---- page load (dashboard.js 2-24) and charts (27-189)
    chartDataElement,   \* the #chartData element: "absent", "malformed" or "json"
    chartDataValue,     \* what its textContent denotes when it is JSON
    riskCtx,            \* #riskDistributionChart exists
    trendsCtx,          \* #assessmentTrendsChart exists
    pc,                 \* position of the DOMContentLoaded handler
    riskChart,          \* the doughnut chart created, or NoChart
    trendsChart,        \* the line chart created, or NoChart
    tooltip,            \* last label produced by the tooltip callback, per sector
    consoleErrors,      \* console.error messages
    uncaught,           \* an exception escaped the DOMContentLoaded handler
    interval,           \* the setInterval timer: [active, period]
    listeners,          \* click / input listeners attached
    \* ---- refresh loop (192-248) and KPI cards (251-282)
    numCards,           \* number of .kpi-card elements of the page
    kpiText,            \* textContent of the four KPI counters
    runs,               \* position of each refreshDashboardData invocation
    ticks,              \* interval callbacks fired so far
    requests,           \* fetch('/api/dashboard-data') calls made so far
    latestSnap,         \* stats returned to the most recently issued request
    rejected,           \* some promise returned by refreshDashboardData rejected
    location,           \* window.location.href
    \* ---- search (285-304) and debounce (315-325)
    inputValue,         \* value of the [data-search] input
    itemText,           \* textContent of the items its data-search selector matches
    itemDisplay,        \* style.display of those items
    timeout,            \* debounce's captured variable `timeout` (0: undefined)
    timers,             \* pending setTimeout timers: [id, arg, remaining]
    calls,              \* invocations of the debounced function so far
    sinceCall,          \* time since the last invocation, saturating at the wait
    burst,              \* the invocations since the last execution
    lastExec            \* the last execution of the debounced func

loadVars == <<chartDataElement, chartDataValue, riskCtx, trendsCtx, pc, riskChart,
              trendsChart, tooltip, consoleErrors, uncaught, interval, listeners>>
refreshVars == <<numCards, kpiText, runs, ticks, requests, latestSnap,
                 rejected, location>>
searchVars == <<inputValue, itemText, itemDisplay, timeout, timers, calls,
                sinceCall, burst, lastExec>>
vars == <<loadVars, refreshVars, searchVars>>

\* ---------------------------------------------------------------- bounds
\* Largest count of one risk category in the embedded data.
MaxCount == 4
\* Largest value of one field of a stats snapshot.
MaxStat == 2
\* Interval callbacks modelled.
MaxTicks == 2
\* Most .kpi-card elements on the page.
MaxCards == 5
\* Longest search query typed.
MaxQueryLen == 2
\* Invocations of the debounced function modelled.
MaxCalls == 3

\* ------------------------------------------------------ program constants
\* 5 * 60 * 1000, the refresh period in ms.
RefreshPeriod == 300000
\* The wait passed to debounce by addSearchFunctionality, in ms.
SearchDelay == 300

\* --------------------------------------------------------------- helpers
Min(a, b) == IF a < b THEN a ELSE b
Max(a, b) == IF a > b THEN a ELSE b

\* The JavaScript objects with keys among `keys` and values among `values`.
Objects(keys, values) == UNION {[S -> values] : S \in SUBSET keys}

\* ------------------------------------------------------------ page load
RiskKeys == {"low_risk", "moderate_risk", "high_risk"}

NoChart == [type |-> "none", labels |-> <<>>, data |-> <<>>]

\* Values the embedded riskDistribution can take: an object with any subset
\* of the three keys.
RiskObjects == Objects(RiskKeys, 0..MaxCount)

\* Values the embedded assessmentTrends can take: labels and counts each
\* present or not.
TrendsObjects ==
    { [labels |-> <<"W1", "W2">>, counts |-> <<1, 2>>],
      [labels |-> <<"W1", "W2">>],
      [counts |-> <<1, 2>>],
      <<>> }

\* What JSON.parse(chartDataElement.textContent) can yield: null, or an
\* object in which riskDistribution and assessmentTrends are each present
\* or missing.
ChartDataValues ==
    { [isNull |-> TRUE, hasRisk |-> FALSE, risk |-> <<>>,
       hasTrends |-> FALSE, trends |-> <<>>] }
    \cup { [isNull |-> FALSE, hasRisk |-> TRUE, risk |-> r,
            hasTrends |-> TRUE, trends |-> t] : r \in RiskObjects, t \in TrendsObjects }
    \cup { [isNull |-> FALSE, hasRisk |-> FALSE, risk |-> <<>>,
            hasTrends |-> TRUE, trends |-> t] : t \in TrendsObjects }
    \cup { [isNull |-> FALSE, hasRisk |-> TRUE, risk |-> r,
            hasTrends |-> FALSE, trends |-> <<>>] : r \in RiskObjects }
    \cup { [isNull |-> FALSE, hasRisk |-> FALSE, risk |-> <<>>,
            hasTrends |-> FALSE, trends |-> <<>>] }

\* `data.key || 0` (lines 37-39): undefined and 0 are falsy.
OrZero(data, key) ==
    IF key \in DOMAIN data /\ data[key] # 0 THEN data[key] ELSE 0

\* The doughnut dataset built from riskDistribution (lines 36-40).
RiskDataset(data) ==
    << OrZero(data, "low_risk"), OrZero(data, "moderate_risk"), OrZero(data, "high_risk") >>

\* dataset.data.reduce((a, b) => a + b, 0) (line 72).
Total(ds) == ds[1] + ds[2] + ds[3]

\* ToFixed1 with a fault: the percentage cut to one decimal instead of rounded.
ToFixed1Truncating(value, total) == (1000 * value) \div total

\* ((value / total) * 100).toFixed(1), in tenths of a percent: the integer n
\* with n/10 nearest to 100*value/total, the larger one on a tie (toFixed).
ToFixed1(value, total) == (2000 * value + total) \div (2 * total)

\* The tooltip's percentage (line 73), in tenths of a percent.
Percentage(value, total) == IF total > 0 THEN ToFixed1(value, total) ELSE 0

NoLabel == [shown |-> FALSE, value |-> 0, pct |-> 0]

\* The state every specification starts its load-handler part from.
LoadIdle ==
    /\ riskChart = NoChart
    /\ trendsChart = NoChart
    /\ tooltip = [i \in 1..3 |-> NoLabel]
    /\ consoleErrors = {}
    /\ uncaught = FALSE
    /\ interval = [active |-> FALSE, period |-> 0]
    /\ listeners = FALSE

RefreshIdle ==
    /\ runs = <<>>
    /\ ticks = 0
    /\ requests = 0
    /\ latestSnap = [key \in {"totalPatients", "totalAssessments", "highRiskCount", "assessmentsThisWeek"} |-> -1]
    /\ rejected = FALSE
    /\ location = "/dashboard"

SearchIdle ==
    /\ inputValue = <<>>
    /\ itemText = << <<"A", "b">>, <<"b", "a", "A">>, <<"B">>, <<>> >>
    /\ itemDisplay = <<"", "", "", "">>
    /\ timeout = 0
    /\ timers = {}
    /\ calls = 0
    /\ sinceCall = SearchDelay
    /\ burst = [calls |-> 0, execs |-> 0, rapid |-> TRUE]
    /\ lastExec = [arg |-> 0, gap |-> 0, lastCall |-> 0, query |-> <<>>]

\* Lines 4-8: look the element up; absent: log and return.
GetChartData ==
    /\ pc = "start"
    /\ IF chartDataElement = "absent"
       THEN /\ consoleErrors' = consoleErrors \cup {"Chart data not found"}
            /\ pc' = "returned"
       ELSE /\ pc' = "parse"
            /\ UNCHANGED consoleErrors
    /\ UNCHANGED <<chartDataElement, chartDataValue, riskCtx, trendsCtx, riskChart,
                   trendsChart, tooltip, uncaught, interval, listeners>>
    /\ UNCHANGED <<refreshVars, searchVars>>

\* ParseChartData with a fault: the catch block logs and does not return.
ParseChartDataNoReturn ==
    /\ pc = "parse"
    /\ IF chartDataElement = "malformed"
       THEN consoleErrors' = consoleErrors \cup {"Error parsing chart data:"}
       ELSE UNCHANGED consoleErrors
    /\ pc' = "risk"
    /\ UNCHANGED <<chartDataElement, chartDataValue, riskCtx, trendsCtx, riskChart,
                   trendsChart, tooltip, uncaught, interval, listeners>>
    /\ UNCHANGED <<refreshVars, searchVars>>

\* Lines 10-16: JSON.parse in try/catch; a parse error is logged and the
\* handler returns.
ParseChartData ==
    /\ pc = "parse"
    /\ IF chartDataElement = "malformed"
       THEN /\ consoleErrors' = consoleErrors \cup {"Error parsing chart data:"}
            /\ pc' = "returned"
       ELSE /\ pc' = "risk"
            /\ UNCHANGED consoleErrors
    /\ UNCHANGED <<chartDataElement, chartDataValue, riskCtx, trendsCtx, riskChart,
                   trendsChart, tooltip, uncaught, interval, listeners>>
    /\ UNCHANGED <<refreshVars, searchVars>>

\* Line 19 and lines 27-93.  Reading chartData.riskDistribution of null
\* throws; with the container present, reading data.low_risk of undefined
\* throws.  Nothing catches either: the handler is abandoned.
InitializeRiskDistributionChart ==
    /\ pc = "risk"
    /\ IF chartDataValue.isNull
       THEN /\ pc' = "threw" /\ uncaught' = TRUE /\ UNCHANGED riskChart
       ELSE IF ~riskCtx
       THEN /\ pc' = "trends" /\ UNCHANGED <<uncaught, riskChart>>
       ELSE IF ~chartDataValue.hasRisk
       THEN /\ pc' = "threw" /\ uncaught' = TRUE /\ UNCHANGED riskChart
       ELSE /\ riskChart' = [type |-> "doughnut",
                             labels |-> <<"Low Risk", "Moderate Risk", "High Risk">>,
                             data |-> RiskDataset(chartDataValue.risk)]
            /\ pc' = "trends"
            /\ UNCHANGED uncaught
    /\ UNCHANGED <<chartDataElement, chartDataValue, riskCtx, trendsCtx,
                   trendsChart, tooltip, consoleErrors, interval, listeners>>
    /\ UNCHANGED <<refreshVars, searchVars>>

\* `data.labels || [...]` and `data.counts || [...]` (lines 101-102).
TrendsLabels(data) ==
    IF "labels" \in DOMAIN data THEN data.labels
    ELSE <<"Mon", "Tue", "Wed", "Thu", "Fri", "Sat", "Sun">>
TrendsCounts(data) ==
    IF "counts" \in DOMAIN data THEN data.counts
    ELSE <<0, 0, 0, 0, 0, 0, 0>>

\* Line 20 and lines 96-189.
InitializeAssessmentTrendsChart ==
    /\ pc = "trends"
    /\ IF ~trendsCtx
       THEN /\ pc' = "features" /\ UNCHANGED <<uncaught, trendsChart>>
       ELSE IF ~chartDataValue.hasTrends
       THEN /\ pc' = "threw" /\ uncaught' = TRUE /\ UNCHANGED trendsChart
       ELSE /\ trendsChart' = [type |-> "line",
                               labels |-> TrendsLabels(chartDataValue.trends),
                               data |-> TrendsCounts(chartDataValue.trends)]
            /\ pc' = "features"
            /\ UNCHANGED uncaught
    /\ UNCHANGED <<chartDataElement, chartDataValue, riskCtx, trendsCtx,
                   riskChart, tooltip, consoleErrors, interval, listeners>>
    /\ UNCHANGED <<refreshVars, searchVars>>

\* Line 23 and lines 192-204: setInterval(refreshDashboardData, 5*60*1000),
\* then the click and input listeners.
AddInteractiveFeatures ==
    /\ pc = "features"
    /\ interval' = [active |-> TRUE, period |-> RefreshPeriod]
    /\ listeners' = TRUE
    /\ pc' = "done"
    /\ UNCHANGED <<chartDataElement, chartDataValue, riskCtx, trendsCtx, riskChart,
                   trendsChart, tooltip, consoleErrors, uncaught>>
    /\ UNCHANGED <<refreshVars, searchVars>>

\* The tooltip label callback (lines 69-75) for sector i of the doughnut.
TooltipLabel(i) ==
    /\ riskChart.type = "doughnut"
    /\ LET value == riskChart.data[i]
           total == Total(riskChart.data)
       IN  tooltip' = [tooltip EXCEPT ![i] =
                         [shown |-> TRUE, value |-> value, pct |-> Percentage(value, total)]]
    /\ UNCHANGED <<chartDataElement, chartDataValue, riskCtx, trendsCtx, pc, riskChart,
                   trendsChart, consoleErrors, uncaught, interval, listeners>>
    /\ UNCHANGED <<refreshVars, searchVars>>

InitLoad ==
    /\ chartDataElement \in {"absent", "malformed", "json"}
    /\ chartDataValue \in ChartDataValues
    /\ chartDataElement # "json" =>
         chartDataValue = [isNull |-> TRUE, hasRisk |-> FALSE, risk |-> <<>>,
                           hasTrends |-> FALSE, trends |-> <<>>]
    /\ riskCtx \in BOOLEAN
    /\ trendsCtx \in BOOLEAN
    /\ pc = "start"
    /\ LoadIdle
    /\ numCards = 4
    /\ kpiText = [k \in 1..4 |-> <<"0">>]
    /\ RefreshIdle
    /\ SearchIdle

NextLoad ==
    \/ GetChartData
    \/ ParseChartData
    \/ InitializeRiskDistributionChart
    \/ InitializeAssessmentTrendsChart
    \/ AddInteractiveFeatures
    \/ \E i \in 1..3 : TooltipLabel(i)

SpecLoad == InitLoad /\ [][NextLoad]_vars

\* ---------------------------------------------------------- refresh loop
\* The keys of kpiElements, in the order Object.keys yields them (231-234).
StatKeys == <<"totalPatients", "totalAssessments", "highRiskCount", "assessmentsThisWeek">>

StatKeySet == {StatKeys[k] : k \in 1..4}

\* The stats snapshots the server returns here: four non-negative integers,
\* the three totals sharing one value p and highRiskCount holding h, so that
\* any field can be 0 beside a positive one.
Snapshots ==
    { [key \in StatKeySet |-> IF key = "highRiskCount" THEN h ELSE p] :
        p \in 0..MaxStat, h \in 0..MaxStat }

NoSnapshot == [key \in StatKeySet |-> -1]

\* What the body of an OK response can be: not JSON, JSON null, an object
\* without stats, or { stats: snapshot }.
Bodies ==
    { [kind |-> "malformed", stats |-> NoSnapshot],
      [kind |-> "null", stats |-> NoSnapshot],
      [kind |-> "noStats", stats |-> NoSnapshot] }
    \cup { [kind |-> "stats", stats |-> s] : s \in Snapshots }

Digit(d) == <<"0", "1", "2", "3", "4", "5", "6", "7", "8", "9">>[d + 1]

\* The string a non-negative integer becomes when assigned to textContent.
RECURSIVE ToString(_)
ToString(n) ==
    IF n < 10 THEN <<Digit(n)>> ELSE Append(ToString(n \div 10), Digit(n % 10))

\* document.querySelector('.kpi-card:nth-child(k) h3') finds an element:
\* the page's KPI cards are siblings, each holding one h3.
KpiElement(n, k) == k <= n

\* `stats[key]` as a condition (line 239): 0 is falsy.
Truthy(v) == v # 0

\* updateKPICards(stats) (lines 229-248) from key k on, on a page of n cards:
\* the counters' text afterwards, or threw when stats[key] is read of an
\* undefined stats.
RECURSIVE UpdateFrom(_, _, _, _)
UpdateFrom(k, n, text, body) ==
    IF k > 4 THEN [threw |-> FALSE, text |-> text]
    ELSE IF ~KpiElement(n, k) THEN UpdateFrom(k + 1, n, text, body)
    ELSE IF body.kind # "stats" THEN [threw |-> TRUE, text |-> text]
    ELSE IF Truthy(body.stats[StatKeys[k]])
         THEN UpdateFrom(k + 1, n,
                         [text EXCEPT ![k] = ToString(body.stats[StatKeys[k]])], body)
         ELSE UpdateFrom(k + 1, n, text, body)

UpdateKPICards(n, text, body) == UpdateFrom(1, n, text, body)

\* RejectsOn with a fault: no try/catch, an error thrown rejects the promise.
RejectsOnThrow(threw) == threw

\* The try/catch of refreshDashboardData (lines 208, 223-225) encloses
\* everything the function does: whether an error thrown inside rejects the
\* promise the function returns.
RejectsOn(threw) == FALSE

\* RefreshFailed with a fault: the catch block fetches again.
RefreshFailedRetry(reqs, iv) == [requests |-> reqs + 1, interval |-> iv]

\* The catch block (lines 223-225) only logs: what it leaves of the
\* request count and the interval.
RefreshFailed(reqs, iv) == [requests |-> reqs, interval |-> iv]

\* The interval callback (line 194): refreshDashboardData starts and calls
\* fetch (line 209).
Tick ==
    /\ interval.active
    /\ ticks < MaxTicks
    /\ ticks' = ticks + 1
    /\ requests' = requests + 1
    /\ runs' = Append(runs, "fetch")
    /\ latestSnap' = NoSnapshot
    /\ UNCHANGED <<numCards, kpiText, rejected, location>>
    /\ UNCHANGED <<loadVars, searchVars>>

\* The fetch of run r settles (lines 209-217): it rejects, or resolves with a
\* response that is OK or not.
FetchSettles(r, res) ==
    /\ runs[r] = "fetch"
    /\ CASE res = "ok" ->
              /\ runs' = [runs EXCEPT ![r] = "json"]
              /\ UNCHANGED <<rejected, requests, interval>>
         [] res = "notOk" ->
              /\ runs' = [runs EXCEPT ![r] = "notOk"]
              /\ UNCHANGED <<rejected, requests, interval>>
         [] res = "rejected" ->
              /\ runs' = [runs EXCEPT ![r] = "rejected"]
              /\ rejected' = (rejected \/ RejectsOn(TRUE))
              /\ requests' = RefreshFailed(requests, interval).requests
              /\ interval' = RefreshFailed(requests, interval).interval
    /\ UNCHANGED <<numCards, kpiText, ticks, latestSnap, location>>
    /\ UNCHANGED <<chartDataElement, chartDataValue, riskCtx, trendsCtx, pc, riskChart,
                   trendsChart, tooltip, consoleErrors, uncaught, listeners>>
    /\ UNCHANGED searchVars

\* response.json() of run r settles with `body` (lines 218-221).  A parse
\* error, and the TypeError of reading data.stats of null, go to the catch
\* block before updateKPICards is called; an error thrown by updateKPICards
\* goes there too, whatever it wrote before staying written.
JsonSettles(r, body) ==
    /\ runs[r] = "json"
    /\ LET called == body.kind \in {"noStats", "stats"}
           upd == UpdateKPICards(numCards, kpiText, body)
           threw == ~called \/ upd.threw
       IN  /\ runs' = [runs EXCEPT ![r] =
                         CASE body.kind = "malformed" -> "parseError"
                           [] body.kind \in {"null", "noStats"} -> "noStats"
                           [] OTHER -> "refreshed"]
           /\ kpiText' = IF called THEN upd.text ELSE kpiText
           /\ rejected' = (rejected \/ (threw /\ RejectsOn(threw)))
           /\ requests' = IF threw THEN RefreshFailed(requests, interval).requests
                          ELSE requests
           /\ interval' = IF threw THEN RefreshFailed(requests, interval).interval
                          ELSE interval
    /\ latestSnap' = IF r = Len(runs) /\ body.kind = "stats" THEN body.stats ELSE latestSnap
    /\ UNCHANGED <<numCards, ticks, location>>
    /\ UNCHANGED <<chartDataElement, chartDataValue, riskCtx, trendsCtx, pc, riskChart,
                   trendsChart, tooltip, consoleErrors, uncaught, listeners>>
    /\ UNCHANGED searchVars

\* NavTarget with a fault: case 2 lacks its break and falls through to case 3.
NavTargetFallThrough(index, href) ==
    CASE index = 0 -> "/patients"
      [] index = 1 -> "/patients"
      [] index = 2 -> "/patients?filter=recent"
      [] index = 3 -> "/patients?filter=recent"
      [] OTHER -> href

\* The switch of the click handler (lines 263-276): the new
\* window.location.href after a click on the card at `index`.
NavTarget(index, href) ==
    CASE index = 0 -> "/patients"
      [] index = 1 -> "/patients"
      [] index = 2 -> "/patients?filter=high_risk"
      [] index = 3 -> "/patients?filter=recent"
      [] OTHER -> href

\* A click on the KPI card at `index` (lines 255-277).
ClickCard(index) ==
    /\ listeners
    /\ index < numCards
    /\ location' = NavTarget(index, location)
    /\ UNCHANGED <<numCards, kpiText, runs, ticks, requests, latestSnap, rejected>>
    /\ UNCHANGED <<loadVars, searchVars>>

\* Both renderers have returned; the page shows some rendered snapshot in
\* the counters of its cards.
InitRefresh ==
    /\ chartDataElement = "json"
    /\ chartDataValue = [isNull |-> FALSE, hasRisk |-> TRUE, risk |-> <<>>,
                         hasTrends |-> TRUE, trends |-> <<>>]
    /\ riskCtx = FALSE
    /\ trendsCtx = FALSE
    /\ pc = "features"
    /\ LoadIdle
    /\ numCards \in 0..MaxCards
    /\ \E s \in Snapshots :
         kpiText = [k \in 1..4 |->
                      IF KpiElement(numCards, k) THEN ToString(s[StatKeys[k]]) ELSE <<>>]
    /\ RefreshIdle
    /\ SearchIdle

NextRefresh ==
    \/ AddInteractiveFeatures
    \/ Tick
    \/ \E r \in 1..Len(runs), res \in {"ok", "notOk", "rejected"} : FetchSettles(r, res)
    \/ \E r \in 1..Len(runs), body \in Bodies : JsonSettles(r, body)
    \/ \E index \in 0..(MaxCards - 1) : ClickCard(index)

SpecRefresh == InitRefresh /\ [][NextRefresh]_vars

\* --------------------------------------------------- search and debounce
\* Characters typed and shown: two letters, each in both cases.
Chars == {"a", "A", "b", "B"}

RECURSIVE StringsUpTo(_)
StringsUpTo(n) ==
    IF n = 0 THEN {<<>>}
    ELSE LET shorter == StringsUpTo(n - 1)
         IN  shorter \cup {Append(s, c) : s \in shorter, c \in Chars}

\* What the user can have typed into the search input.
Queries == StringsUpTo(MaxQueryLen)

\* Times that pass between two events, in ms: less than the wait, or all of it.
Delays == {150, 300}

LowerChar(c) == CASE c = "A" -> "a" [] c = "B" -> "b" [] OTHER -> c

\* String.prototype.toLowerCase.
ToLowerCase(str) == [i \in 1..Len(str) |-> LowerChar(str[i])]

\* String.prototype.includes: search `term` in `text` from position k on.
RECURSIVE IncludesFrom(_, _, _)
IncludesFrom(text, term, k) ==
    IF k + Len(term) - 1 > Len(text) THEN FALSE
    ELSE IF SubSeq(text, k, k + Len(term) - 1) = term THEN TRUE
    ELSE IncludesFrom(text, term, k + 1)

Includes(text, term) == IncludesFrom(text, term, 1)

\* Matches with a fault: the item's text is not lower-cased.
MatchesCaseSensitive(textContent, searchTerm) == Includes(textContent, searchTerm)

\* Lines 295-296: item.textContent.toLowerCase().includes(searchTerm).
Matches(textContent, searchTerm) == Includes(ToLowerCase(textContent), searchTerm)

\* The search handler (lines 290-301) for the input's current value: the
\* style.display of every item afterwards.
FilterItems(value, texts) ==
    LET searchTerm == ToLowerCase(value)
    IN  [i \in 1..Len(texts) |-> IF Matches(texts[i], searchTerm) THEN "" ELSE "none"]

\* clearTimeout(handle): the timer of that handle, if pending, is cancelled.
ClearTimeout(ts, handle) == {t \in ts : t.id # handle}

\* ExecutedFunction with a fault: the pending timer is not cleared (line 322).
ExecutedFunctionNoClear(ts, handle, arg, newId, wait) ==
    [timers |-> ts \cup {[id |-> newId, arg |-> arg, remaining |-> wait]},
     timeout |-> newId]

\* executedFunction (lines 317-324), called with `arg`: clearTimeout(timeout),
\* then timeout = setTimeout(later, wait).  newId is the handle setTimeout
\* returns.
ExecutedFunction(ts, handle, arg, newId, wait) ==
    [timers |-> ClearTimeout(ts, handle) \cup {[id |-> newId, arg |-> arg, remaining |-> wait]},
     timeout |-> newId]

\* An input event on the search input: the user has changed the value to q,
\* and the listener, debounce's executedFunction, is called with the event.
InputEvent(q) ==
    /\ listeners
    /\ calls < MaxCalls
    /\ inputValue' = q
    /\ calls' = calls + 1
    /\ LET after == ExecutedFunction(timers, timeout, calls + 1, calls + 1, SearchDelay)
       IN  /\ timers' = after.timers
           /\ timeout' = after.timeout
    /\ sinceCall' = 0
    /\ burst' = IF timers = {}
                THEN [calls |-> 1, execs |-> 0, rapid |-> TRUE]
                ELSE [calls |-> burst.calls + 1, execs |-> burst.execs,
                      rapid |-> burst.rapid /\ sinceCall < SearchDelay]
    /\ UNCHANGED <<itemText, itemDisplay, lastExec>>
    /\ UNCHANGED <<loadVars, refreshVars>>

\* Time passes.
Advance(d) ==
    /\ listeners
    /\ sinceCall < SearchDelay \/ \E t \in timers : t.remaining > 0
    /\ sinceCall' = Min(sinceCall + d, SearchDelay)
    /\ timers' = {[t EXCEPT !.remaining = Max(t.remaining - d, 0)] : t \in timers}
    /\ UNCHANGED <<inputValue, itemText, itemDisplay, timeout, calls, burst, lastExec>>
    /\ UNCHANGED <<loadVars, refreshVars>>

\* A timer whose wait has elapsed runs `later` (lines 318-321):
\* clearTimeout(timeout), then func(...args), here the search handler, which
\* reads e.target.value as it is now.
TimerFires(t) ==
    /\ t \in timers
    /\ t.remaining = 0
    /\ timers' = ClearTimeout(timers \ {t}, timeout)
    /\ itemDisplay' = FilterItems(inputValue, itemText)
    /\ lastExec' = [arg |-> t.arg, gap |-> sinceCall, lastCall |-> calls, query |-> inputValue]
    /\ burst' = [burst EXCEPT !.execs = @ + 1]
    /\ UNCHANGED <<inputValue, itemText, timeout, calls, sinceCall>>
    /\ UNCHANGED <<loadVars, refreshVars>>

\* Both renderers have returned; the page holds one search input.
InitSearch ==
    /\ chartDataElement = "json"
    /\ chartDataValue = [isNull |-> FALSE, hasRisk |-> TRUE, risk |-> <<>>,
                         hasTrends |-> TRUE, trends |-> <<>>]
    /\ riskCtx = FALSE
    /\ trendsCtx = FALSE
    /\ pc = "features"
    /\ LoadIdle
    /\ numCards = 4
    /\ kpiText = [k \in 1..4 |-> <<"0">>]
    /\ RefreshIdle
    /\ SearchIdle

NextSearch ==
    \/ AddInteractiveFeatures
    \/ \E q \in Queries : InputEvent(q)
    \/ \E d \in Delays : Advance(d)
    \/ \E t \in timers : TimerFires(t)

SpecSearch == InitSearch /\ [][NextSearch]_vars

\* ------------------------------------------------- claims on the page load
KeyIndex(key) ==
    CASE key = "low_risk" -> 1 [] key = "moderate_risk" -> 2 [] key = "high_risk" -> 3

\* The dataset holds 0 for each missing key and the given count for each
\* present one.
DatasetDefaults ==
    \A key \in RiskKeys :
        riskChart.data[KeyIndex(key)] =
            IF key \in DOMAIN chartDataValue.risk THEN chartDataValue.risk[key] ELSE 0

AllSectorsShown == \A i \in 1..3 : tooltip[i].shown

PctSum == tooltip[1].pct + tooltip[2].pct + tooltip[3].pct

\* C4 as stated: with the doughnut created, missing keys are 0 and present
\* keys keep their count; the three tooltip percentages (tenths of a percent)
\* sum to exactly 100.0 when the total is positive and are all 0 when it is 0.
C4_PercentagesSumTo100 ==
    riskChart.type = "doughnut" =>
        /\ DatasetDefaults
        /\ AllSectorsShown =>
             IF Total(riskChart.data) > 0
             THEN PctSum = 1000
             ELSE \A i \in 1..3 : tooltip[i].pct = 0

\* C4 amended: as C4, but the three one-decimal percentages sum to between
\* 99.9 and 100.1 when the total is positive (each is rounded on its own).
C4_PercentagesSumNear100 ==
    riskChart.type = "doughnut" =>
        /\ DatasetDefaults
        /\ AllSectorsShown =>
             IF Total(riskChart.data) > 0
             THEN PctSum \in 999..1001
             ELSE \A i \in 1..3 : tooltip[i].pct = 0

\* C4 witness: a chart built from data with a key missing and a positive
\* total, the tooltip of every sector shown.
C4_Witness ==
    /\ riskChart.type = "doughnut"
    /\ DOMAIN chartDataValue.risk # RiskKeys
    /\ Total(riskChart.data) > 0
    /\ AllSectorsShown

\* C7: with the chartData element absent or its content not JSON, the
\* handler logs the failure and returns: no renderer is entered, no chart is
\* created, nothing is attached and no exception escapes.
C7_BadChartDataSkipsRenderers ==
    chartDataElement # "json" =>
        /\ pc \in {"start", "parse", "returned"}
        /\ riskChart = NoChart /\ trendsChart = NoChart
        /\ ~uncaught
        /\ ~listeners /\ ~interval.active
        /\ pc = "returned" =>
             consoleErrors = { IF chartDataElement = "absent"
                               THEN "Chart data not found"
                               ELSE "Error parsing chart data:" }

\* C7 witness: the handler has returned after a parse failure, with both
\* chart containers on the page.
C7_Witness ==
    /\ chartDataElement = "malformed"
    /\ pc = "returned"
    /\ riskCtx /\ trendsCtx

\* C10 as stated: whenever the embedded data parses (here already for every
\* parsed object, null aside), the handler goes through both renderers and
\* reaches addInteractiveFeatures, no exception ending it early; and the
\* listeners and the timer are set up only after both renderers returned.
C10_LoadReachesFeatures ==
    /\ (chartDataElement = "json" /\ ~chartDataValue.isNull) =>
           /\ pc \in {"start", "parse", "risk", "trends", "features", "done"}
           /\ ~uncaught
    /\ (listeners \/ interval.active) => pc = "done"

\* ---------------------------------------------- claims on the refresh loop
Failures == {"rejected", "notOk", "parseError", "noStats"}

\* C2: in every step in which a run of refreshDashboardData ends in failure
\* (fetch rejected, non-OK status, body not JSON, no stats object) the text
\* of the four counters is left as it was, and no promise returned by
\* refreshDashboardData is ever rejected.
C2_FailedRefreshKeepsCounters ==
    [][ \A r \in 1..Len(runs) :
          (runs[r] \in {"fetch", "json"} /\ runs'[r] \in Failures)
              => (kpiText' = kpiText /\ ~rejected') ]_vars

\* C2 witness: on a page with all four counters, a first refresh has
\* replaced the rendered counters and a second one has failed on a body
\* without stats.
C2_Witness ==
    /\ numCards >= 4
    /\ Len(runs) = 2
    /\ runs[1] = "refreshed" /\ runs[2] = "noStats"
    /\ \E k \in 1..4 : kpiText[k] = <<"2">>

\* C3 as stated: after the one successful refresh of a page, every counter
\* whose element exists shows its field of the fetched snapshot.
C3_CountersShowSnapshot ==
    (ticks = 1 /\ runs[1] = "refreshed") =>
        \A k \in 1..4 :
            KpiElement(numCards, k) => kpiText[k] = ToString(latestSnap[StatKeys[k]])

\* The navigation targets the claim lists, by card index.
ClaimedTarget(index, href) ==
    IF index \in {0, 1} THEN "/patients"
    ELSE IF index = 2 THEN "/patients?filter=high_risk"
    ELSE IF index = 3 THEN "/patients?filter=recent"
    ELSE href

\* C5: a click on the card at index i sets window.location.href to
\* /patients for i = 0 and 1, /patients?filter=high_risk for 2,
\* /patients?filter=recent for 3, and leaves it as it is for i >= 4, after
\* any clicks and refreshes before it.
C5_ClickNavigatesByIndex ==
    [][ \A index \in 0..(MaxCards - 1) :
          ClickCard(index) => location' = ClaimedTarget(index, location) ]_vars

\* C5 witness: after two refreshes and a click elsewhere, a click on card 3
\* of a page with more than four cards has set the target.
C5_Witness ==
    /\ numCards > 4
    /\ ticks = 2 /\ runs[2] = "refreshed"
    /\ location = "/patients?filter=recent"

\* C8: requests are issued by ticks only, one per tick, and once the loop
\* is started the timer stays active with its period of 5 minutes, whatever
\* the refreshes did.
C8_OneRequestPerTick ==
    /\ requests = ticks
    /\ Len(runs) = ticks
    /\ pc = "done" => interval = [active |-> TRUE, period |-> RefreshPeriod]
    /\ pc # "done" => ticks = 0
    /\ (pc = "done" /\ ticks < MaxTicks) => ENABLED Tick

\* C8 witness: a failed refresh followed by a tick whose refresh succeeded.
C8_Witness ==
    /\ ticks = 2
    /\ runs[1] \in {"rejected", "parseError"}
    /\ runs[2] = "refreshed"

\* C9 as stated: with two or more requests issued and all of them completed
\* successfully, the counters show the snapshot returned for the request
\* issued last (here for a snapshot of positive fields, which updateKPICards
\* writes in full).
C9_LatestIssuedShown ==
    ( /\ ticks >= 2
      /\ \A r \in 1..Len(runs) : runs[r] = "refreshed"
      /\ \A key \in StatKeySet : latestSnap[key] > 0 )
    => \A k \in 1..4 :
           KpiElement(numCards, k) => kpiText[k] = ToString(latestSnap[StatKeys[k]])

\* ---------------------------------------- claims on search and debounce
\* C1: at most one timer is pending; every execution of func happens once the
\* wait has elapsed since the last invocation and with that invocation's
\* arguments; and of a run of invocations each less than the wait after the
\* one before, either the timer is still pending and func has not run, or
\* func has run exactly once.
C1_DebounceRunsOnceWithLastArgs ==
    /\ Cardinality(timers) <= 1
    /\ lastExec.arg # 0 =>
         /\ lastExec.gap >= SearchDelay
         /\ lastExec.arg = lastExec.lastCall
    /\ (burst.calls >= 1 /\ burst.rapid) => burst.execs + Cardinality(timers) = 1

\* C1 witness: three invocations, each less than the wait after the one
\* before, and func has run for the third.
C1_Witness ==
    /\ burst.calls = 3 /\ burst.rapid
    /\ burst.execs = 1
    /\ timers = {}
    /\ lastExec.arg = 3

\* q occurs in text somewhere, both compared in lower case.
OccursIgnoringCase(q, text) ==
    \E off \in 0..Len(text) :
        /\ off + Len(q) <= Len(text)
        /\ \A j \in 1..Len(q) : LowerChar(text[off + j]) = LowerChar(q[j])

\* C6: after the search handler has run for a query, every item is visible
\* (display '') if the lower-cased query occurs in its lower-cased text and
\* hidden (display 'none') if not, whatever it was before.
C6_FilterShowsExactlyMatches ==
    lastExec.arg # 0 =>
        \A i \in 1..Len(itemText) :
            itemDisplay[i] = IF OccursIgnoringCase(lastExec.query, itemText[i])
                             THEN "" ELSE "none"

\* C6 witness: the handler has run for the second input event, for a
\* lower-case query that shows the items with "A" or "a" in their text and
\* hides the others.
C6_Witness ==
    /\ lastExec.arg >= 2
    /\ lastExec.query = <<"a">>
    /\ itemDisplay = <<"", "", "none", "none">>

====
